---- MODULE Spec2Model ----
(***************************************************************************)
(* The location-then-fetch workflow of dataDashboard/src/App.jsx.          *)
(*                                                                         *)
(* The component keeps four pieces of hook state (restaurants,             *)
(* userLocation, isLoading, error).  Handlers run to completion on the     *)
(* single UI thread; the asynchronous geolocation callbacks and the fetch  *)
(* continuations are separate steps.  A state setter updates the hook      *)
(* state; React calls App() again (Render) some time later, and only a     *)
(* render whose userLocation differs from the previous render's runs the   *)
(* [userLocation] effect.  The variable `rendered` is the snapshot the     *)
(* last render closed over: it decides what is on screen (the button) and  *)
(* which userLocation the effect compares against.                         *)
(***************************************************************************)
EXTENDS Integers, Sequences, FiniteSets, TLC

\* ------------------------------------------------------------------ bounds

\* Number of getUserLocation calls explored (the mount call plus clicks).
MaxAcquisitions == 2

\* ------------------------------------------------------------------ values

\* JavaScript null / undefined for a string-valued slot.
null == "<null>"

\* useState(null) for userLocation.
nullLocation == [isNull |-> TRUE]

\* Positions the platform may deliver.
Positions ==
    { [latitude |-> 10, longitude |-> 70], [latitude |-> 20, longitude |-> 80] }

\* import.meta.env.VITE_APP_API_KEY: undefined, empty, or a key.
ApiKeys == { null, "", "k3y" }

\* Restaurant lists the service may return (records are opaque pass-through).
RestaurantLists == { << >>, <<"A">>, <<"A", "B">>, <<"B", "A">> }

\* The error strings of the component.
ErrUnsupported == "Geolocation is not supported by your browser."
ErrLocation    == "Failed to get your location. Please try again."
ErrApiKey      == "API key is missing. Please check your environment variables."
ErrFormat      == "Unexpected data format received from the API."
ErrFetch       == "Failed to fetch restaurants. Please try again."
ErrException   == "An error occurred while fetching restaurants. Please try again."

\* `restaurants` field of a decoded body: missing, a non-array, or an array.
RestaurantsFields ==
    { [type |-> "undefined"], [type |-> "string", value |-> "none"] }
        \cup { [type |-> "array", value |-> l] : l \in RestaurantLists }

\* `message` field of a decoded body: missing, empty, or a text.
MessageFields == { null, "", "rate limited" }

\* Decoded JSON bodies: the literal null, or an object with the two fields.
NullBody == [json |-> "null"]
Bodies ==
    { NullBody } \cup
    { [json |-> "object", restaurants |-> r, message |-> m] :
        r \in RestaurantsFields, m \in MessageFields }

\* How a request resolves: fetch() rejects, response.json() rejects, or a
\* status and a decoded body arrive.
Responses ==
    { [kind |-> "networkError"], [kind |-> "malformed"] } \cup
    { [kind |-> "json", ok |-> b, data |-> d] : b \in BOOLEAN, d \in Bodies }

\* ------------------------------------------------------------------- state

VARIABLES
    restaurants,     \* useState([])
    userLocation,    \* useState(null)
    isLoading,       \* useState(false)
    error,           \* useState(null)
    API_KEY,         \* the build's credential
    hasGeolocation,  \* "geolocation" in navigator
    mounted,         \* the mount effects have run
    locId,           \* identity of the userLocation object (0 for null)
    rendered,        \* the state the last render closed over
    pendingGeo,      \* getCurrentPosition calls whose callback has not fired
    nCalls,          \* getUserLocation calls so far
    inflight,        \* requests issued by fetch() and not yet resolved
    acquired,        \* history: positions delivered by the success callback
    fetchLog,        \* history: fetchRestaurants invocations
    lastResp         \* history: the response resolved last

vars ==
    << restaurants, userLocation, isLoading, error, API_KEY, hasGeolocation,
       mounted, locId, rendered, pendingGeo, nCalls, inflight, acquired,
       fetchLog, lastResp >>

env == << API_KEY, hasGeolocation >>

\* The hook state as one record, with the identity of userLocation.
Snapshot ==
    [ restaurants |-> restaurants, userLocation |-> userLocation,
      isLoading |-> isLoading, error |-> error, locId |-> locId ]

Init ==
    /\ restaurants = << >>
    /\ userLocation = nullLocation
    /\ isLoading = FALSE
    /\ error = null
    /\ API_KEY \in ApiKeys
    /\ hasGeolocation \in BOOLEAN
    /\ mounted = FALSE
    /\ locId = 0
    /\ rendered = Snapshot
    /\ pendingGeo = 0
    /\ nCalls = 0
    /\ inflight = {}
    /\ acquired = << >>
    /\ fetchLog = << >>
    /\ lastResp = [id |-> 0, list |-> FALSE, restaurants |-> << >>,
                   resp |-> [kind |-> "none"]]

\* ----------------------------------------------------------------- helpers

\* A guard that tests only for undefined and lets the empty string through.
M_KeyMissingUndefinedOnly(key) == key = null

\* `!API_KEY`: undefined and the empty string are falsy.
KeyMissing(key) == key = null \/ key = ""

\* A button condition that forgets the error: `!userLocation`.
M_ButtonVisibleNoLocationOnly(view) == view.userLocation = nullLocation

\* A button condition that forgets the Coordinates: `!error`.
M_ButtonVisibleNoErrorOnly(view) == view.error = null

\* The condition under which the "Get My Location" button is in the tree.
ButtonVisible(view) == view.userLocation = nullLocation /\ view.error = null

\* Condition of the [userLocation] effect for a render of `now` after `prev`:
\* the dependency changed (a new object each time) and is truthy.
EffectFetches(prev, now) ==
    now.locId # prev.locId /\ now.userLocation # nullLocation

\* The request `fetch()` issues: the coordinates are read from the
\* userLocation of the render whose effect called fetchRestaurants.
Request(id, loc) ==
    [id |-> id, latitude |-> loc.latitude, longitude |-> loc.longitude]

\* The try block throws: fetch() rejected, response.json() rejected, or a
\* property of a null body was read.
Throws(resp) ==
    IF resp.kind = "json" THEN resp.data = NullBody ELSE TRUE

\* `response.ok && data.restaurants && Array.isArray(data.restaurants)`.
ListReceived(resp) ==
    /\ ~Throws(resp)
    /\ resp.ok
    /\ resp.data.restaurants.type = "array"

\* A list test that treats the empty array as missing:
\* `data.restaurants.length` instead of `data.restaurants`.
M_ResolvedRestaurantsSkipEmpty(resp, old) ==
    IF ListReceived(resp) /\ resp.data.restaurants.value # << >>
        THEN resp.data.restaurants.value ELSE old

\* restaurants after the response was handled.
ResolvedRestaurants(resp, old) ==
    IF ListReceived(resp) THEN resp.data.restaurants.value ELSE old

\* `data.message || "Failed to fetch restaurants. Please try again."`.
FailureMessage(message) ==
    IF message # null /\ message # "" THEN message ELSE ErrFetch

\* A success path that also calls setError(null) when it stores the list.
M_ResolvedErrorClearsOnList(resp, old) ==
    IF Throws(resp) THEN ErrException
    ELSE IF resp.ok
        THEN IF resp.data.restaurants.type = "array" THEN null ELSE ErrFormat
        ELSE FailureMessage(resp.data.message)

\* error after the response was handled.
ResolvedError(resp, old) ==
    IF Throws(resp) THEN ErrException
    ELSE IF resp.ok
        THEN IF resp.data.restaurants.type = "array" THEN old ELSE ErrFormat
        ELSE FailureMessage(resp.data.message)

\* A finally block that runs only when the try block completed normally.
M_ResolvedLoadingNoFinally(resp, old) == IF Throws(resp) THEN old ELSE FALSE

\* isLoading after the finally block: false on every path.
ResolvedLoading(resp, old) == FALSE

\* ----------------------------------------------------------------- actions

\* getUserLocation(): start an acquisition, or report the missing capability.
getUserLocation ==
    /\ nCalls' = nCalls + 1
    /\ IF hasGeolocation
         THEN /\ pendingGeo' = pendingGeo + 1
              /\ error' = error
         ELSE /\ error' = ErrUnsupported
              /\ pendingGeo' = pendingGeo

\* A fetch start that sets the loading flag but forgets setError(null).
M_StartedErrorKept(key, old) == IF KeyMissing(key) THEN ErrApiKey ELSE old

\* error after fetchRestaurants ran up to its first await.
StartedError(key, old) == IF KeyMissing(key) THEN ErrApiKey ELSE null

\* fetchRestaurants(), up to the first await.
fetchRestaurants ==
    /\ error' = StartedError(API_KEY, error)
    /\ fetchLog' = Append(fetchLog,
          [locId |-> locId, latitude |-> userLocation.latitude,
           longitude |-> userLocation.longitude,
           network |-> ~KeyMissing(API_KEY)])
    /\ IF KeyMissing(API_KEY)
         THEN UNCHANGED << isLoading, inflight >>
         ELSE /\ isLoading' = TRUE
              /\ inflight' = inflight \cup
                    { Request(Len(fetchLog) + 1, userLocation) }

\* The effects of the first render: getUserLocation(); the [userLocation]
\* effect finds userLocation null.
Mount ==
    /\ ~mounted
    /\ mounted' = TRUE
    /\ getUserLocation
    /\ UNCHANGED << restaurants, userLocation, isLoading, env, locId, rendered,
                    inflight, acquired, fetchLog, lastResp >>

\* onClick of the button, which is on screen iff the last render put it there.
ClickGetMyLocation ==
    /\ mounted
    /\ ButtonVisible(rendered)
    /\ nCalls < MaxAcquisitions
    /\ getUserLocation
    /\ UNCHANGED << restaurants, userLocation, isLoading, env, mounted, locId,
                    rendered, inflight, acquired, fetchLog, lastResp >>

\* Success callback of getCurrentPosition.
GeoSuccess(position) ==
    /\ pendingGeo > 0
    /\ pendingGeo' = pendingGeo - 1
    /\ userLocation' =
          [latitude |-> position.latitude, longitude |-> position.longitude]
    /\ locId' = Len(acquired) + 1
    /\ acquired' = Append(acquired,
          [latitude |-> position.latitude, longitude |-> position.longitude,
           errorBefore |-> error])
    /\ UNCHANGED << restaurants, isLoading, error, env, mounted, rendered,
                    nCalls, inflight, fetchLog, lastResp >>

\* Error callback of getCurrentPosition.
GeoError ==
    /\ pendingGeo > 0
    /\ pendingGeo' = pendingGeo - 1
    /\ error' = ErrLocation
    /\ UNCHANGED << restaurants, userLocation, isLoading, env, mounted, locId,
                    rendered, nCalls, inflight, acquired, fetchLog, lastResp >>

\* React calls App() with the current hook state and then runs the
\* [userLocation] effect if that dependency changed since the last render.
Render ==
    /\ mounted
    /\ Snapshot # rendered
    /\ rendered' = Snapshot
    /\ IF EffectFetches(rendered, Snapshot)
         THEN fetchRestaurants
         ELSE UNCHANGED << isLoading, error, inflight, fetchLog >>
    /\ UNCHANGED << restaurants, userLocation, env, mounted, locId, pendingGeo,
                    nCalls, acquired, lastResp >>

\* A continuation that drops the result of a request made for Coordinates
\* other than the stored ones (a generation guard), and only clears the flag.
M_FetchResolveFresh(req, resp) ==
    /\ req \in inflight
    /\ inflight' = inflight \ { req }
    /\ IF req.latitude = userLocation.latitude
            /\ req.longitude = userLocation.longitude
         THEN /\ restaurants' = ResolvedRestaurants(resp, restaurants)
              /\ error' = ResolvedError(resp, error)
         ELSE UNCHANGED << restaurants, error >>
    /\ isLoading' = ResolvedLoading(resp, isLoading)
    /\ lastResp' =
          [id |-> req.id, list |-> ListReceived(resp),
           restaurants |-> IF ListReceived(resp)
                             THEN resp.data.restaurants.value ELSE << >>,
           resp |-> resp]
    /\ UNCHANGED << userLocation, env, mounted, locId, rendered, pendingGeo,
                    nCalls, acquired, fetchLog >>

\* The continuation of fetchRestaurants after its awaits: try, catch, finally.
FetchResolve(req, resp) ==
    /\ req \in inflight
    /\ inflight' = inflight \ { req }
    /\ restaurants' = ResolvedRestaurants(resp, restaurants)
    /\ error' = ResolvedError(resp, error)
    /\ isLoading' = ResolvedLoading(resp, isLoading)
    /\ lastResp' =
          [id |-> req.id, list |-> ListReceived(resp),
           restaurants |-> IF ListReceived(resp)
                             THEN resp.data.restaurants.value ELSE << >>,
           resp |-> resp]
    /\ UNCHANGED << userLocation, env, mounted, locId, rendered, pendingGeo,
                    nCalls, acquired, fetchLog >>

Next ==
    \/ Mount
    \/ ClickGetMyLocation
    \/ \E position \in Positions : GeoSuccess(position)
    \/ GeoError
    \/ Render
    \/ \E req \in inflight, resp \in Responses : FetchResolve(req, resp)

Spec == Init /\ [][Next]_vars

\* ------------------------------------------------------------ observations

\* The credential is empty or absent.
CredentialAbsent == API_KEY = null \/ API_KEY = ""

\* No render is pending: the screen shows the current hook state.
Quiescent == mounted /\ rendered = Snapshot

\* The fetchRestaurants invocations made for the i-th delivered position.
FetchesFor(i) == { j \in DOMAIN fetchLog : fetchLog[j].locId = i }

\* The invocation used the coordinates the i-th acquisition delivered.
SameCoordinates(entry, i) ==
    /\ entry.latitude = acquired[i].latitude
    /\ entry.longitude = acquired[i].longitude

\* ------------------------------------------------------------------ claims

\* C1: fetchRestaurants is never invoked before Coordinates exist (every
\* invocation is made for a non-null userLocation delivered by an earlier
\* success callback), and every change of userLocation invokes it again:
\* once the screen is up to date, every delivered position has had its
\* invocation.
C1_FetchAfterEveryLocation ==
    /\ \A j \in DOMAIN fetchLog :
          fetchLog[j].locId >= 1 /\ fetchLog[j].locId <= Len(acquired)
    /\ Quiescent => \A i \in 1..Len(acquired) : FetchesFor(i) # {}

\* C2: every successful acquisition initiates exactly one fetch attempt, made
\* with exactly the latitude and longitude it delivered: never more than one,
\* and exactly one once the screen is up to date.
C2_OneFetchPerAcquisition ==
    \A i \in 1..Len(acquired) :
        /\ Cardinality(FetchesFor(i)) <= 1
        /\ \A j \in FetchesFor(i) : SameCoordinates(fetchLog[j], i)
        /\ Quiescent => Cardinality(FetchesFor(i)) = 1

\* C3: whenever a request issued by fetchRestaurants has not resolved,
\* isLoading is true.
C3_LoadingWhileInFlight == inflight # {} => isLoading

\* C4: every resolution of a request, whatever its outcome, leaves isLoading
\* false unless another request is still in flight to clear it; hence
\* isLoading is false whenever no request is in flight.
C4_LoadingCleared == inflight = {} => ~isLoading

\* C4 witness: a request ended in the catch block and nothing is in flight.
C4_Witness ==
    /\ lastResp.id >= 1
    /\ error = ErrException
    /\ inflight = {}
    /\ ~isLoading

\* C5: with an absent or empty credential every fetchRestaurants invocation
\* sets the API-key error, issues no request and leaves isLoading false, so
\* no state has isLoading true or a request in flight.
C5_NoKeyNoRequest ==
    /\ [](CredentialAbsent => ~isLoading /\ inflight = {})
    /\ [][CredentialAbsent /\ Len(fetchLog') > Len(fetchLog)
            => /\ error' = ErrApiKey
               /\ ~fetchLog'[Len(fetchLog')].network
               /\ inflight' = {}
               /\ ~isLoading']_vars

\* C5 witness: the empty-string credential, fetchRestaurants has run.
C5_Witness ==
    /\ API_KEY = ""
    /\ Len(fetchLog) >= 1
    /\ error = ErrApiKey

\* C6: exactly one of: loading; error present; restaurants non-empty;
\* restaurants empty with no error.  The last two and "error present" are
\* disjoint by definition, so the claim is that no two of loading, error
\* present and non-empty restaurants hold together.
C6_ExactlyOneView ==
    /\ ~(isLoading /\ error # null)
    /\ ~(error # null /\ restaurants # << >>)
    /\ ~(isLoading /\ restaurants # << >>)

\* C7: at most one fetchRestaurants request is in flight.
C7_AtMostOneInFlight == Cardinality(inflight) <= 1

\* C8: when the last acquisition failed and no Coordinates are held, the
\* control that calls getUserLocation is on screen.
C8_RetryAvailable ==
    (Quiescent /\ error = ErrLocation /\ userLocation = nullLocation)
        => ButtonVisible(rendered)

\* C9: the response that resolves writes its list (or its error)
\* unconditionally, whether or not its request was made for the stored
\* Coordinates.
C9_LastWriteWins ==
    [][lastResp' # lastResp
         => IF lastResp'.list
              THEN restaurants' = lastResp'.restaurants
              ELSE error' \in { ErrFormat, ErrFetch, ErrException, "rate limited" }
       ]_vars

\* C9 witness: two requests for different Coordinates; the one for the older
\* Coordinates resolved last and its list is what restaurants holds.
C9_Witness ==
    /\ Len(fetchLog) = 2
    /\ inflight = {}
    /\ lastResp.id = 1
    /\ lastResp.list
    /\ fetchLog[1].latitude # userLocation.latitude
    /\ restaurants = lastResp.restaurants
    /\ restaurants # << >>

\* C10 (as stated): at the fetch start a success callback triggers,
\* userLocation holds the delivered position and the error that was present
\* before the callback is no longer present, for every credential.
C10_PriorErrorGone ==
    [][Len(fetchLog') > Len(fetchLog)
         => /\ SameCoordinates(userLocation', locId')
            /\ acquired[locId].errorBefore # null
                  => error' # acquired[locId].errorBefore
       ]_vars

\* C10 (amended): at the fetch start a success callback triggers,
\* userLocation holds the delivered position, and error is cleared when the
\* credential is present and is the API-key message when it is absent.
C10_ErrorAtFetchStart ==
    [][Len(fetchLog') > Len(fetchLog)
         => /\ SameCoordinates(userLocation', locId')
            /\ error' = IF CredentialAbsent THEN ErrApiKey ELSE null
       ]_vars

\* C10 witness: a position arrived while the location error was shown, the
\* credential is present, and the fetch it started has cleared the error.
C10_Witness ==
    /\ ~CredentialAbsent
    /\ \E j \in DOMAIN fetchLog :
          acquired[fetchLog[j].locId].errorBefore = ErrLocation
    /\ isLoading
    /\ error = null

\* ------------------------------------------------- observations of steps

\* This step is the continuation of a request (one response was handled).
ResolveStep == lastResp' # lastResp

\* The response handled in this step.
Handled == lastResp'.resp

\* This step is the error callback of getCurrentPosition.
GeoErrorStep == pendingGeo' < pendingGeo /\ Len(acquired') = Len(acquired)

\* This step called getUserLocation from the button.
ClickStep == mounted /\ nCalls' > nCalls

\* The response carries an HTTP status and a decoded body.
Decoded(r) == r.kind = "json"

\* The decoded body has a list-valued `restaurants` field.
HasList(r) ==
    IF r.data = NullBody THEN FALSE ELSE r.data.restaurants.type = "array"

\* The `message` field of the decoded body (null when there is none).
MessageOf(r) == IF r.data = NullBody THEN null ELSE r.data.message

\* C11: a response with an HTTP success status and a decoded body without a
\* list-valued `restaurants` field sets the unexpected-format error and
\* leaves restaurants as it was.
C11_UnexpectedFormat ==
    [][(ResolveStep /\ Decoded(Handled) /\ Handled.ok /\ ~HasList(Handled))
         => error' = ErrFormat /\ restaurants' = restaurants
       ]_vars

\* C12: the geolocation error callback sets the location-failure message and
\* leaves restaurants empty, whenever it fires; without the capability
\* getUserLocation sets the unsupported message and starts no acquisition.
C12_GeoFailure ==
    [][/\ GeoErrorStep => error' = ErrLocation /\ restaurants' = << >>
       /\ (nCalls' > nCalls /\ ~hasGeolocation)
             => error' = ErrUnsupported /\ pendingGeo' = pendingGeo
      ]_vars

\* C13: the start of a fetch attempt clears the previous restaurants list and
\* the previous error, so nothing of an earlier attempt is held while a
\* later attempt is in progress.
C13_ResetAtFetchStart ==
    [][(Len(fetchLog') > Len(fetchLog) /\ inflight' # inflight)
         => restaurants' = << >> /\ error' = null
      ]_vars

\* C14: a response with an HTTP failure status surfaces the body's `message`
\* when that field is present and the fixed fallback otherwise; the exception
\* message is written only for a network error or an unparseable response.
C14_FailureMessage ==
    [][ResolveStep
         => /\ (Decoded(Handled) /\ ~Handled.ok)
                 => error' = IF MessageOf(Handled) # null
                                THEN MessageOf(Handled) ELSE ErrFetch
            /\ (~lastResp'.list /\ error' = ErrException)
                 => Handled.kind \in { "networkError", "malformed" }
      ]_vars

\* C15: a response with an HTTP success status and a list-valued
\* `restaurants` field (the empty list included) replaces restaurants by that
\* list, same elements in the same order, and sets no error.
C15_ListStored ==
    [][(ResolveStep /\ Decoded(Handled) /\ Handled.ok /\ HasList(Handled))
         => /\ restaurants' = Handled.data.restaurants.value
            /\ error' = error
      ]_vars

\* C15 witness: the list <<"B", "A">> arrived and is held in that order,
\* replacing an earlier non-empty list.
C15_Witness ==
    /\ Decoded(lastResp.resp)
    /\ lastResp.resp.ok
    /\ HasList(lastResp.resp)
    /\ lastResp.resp.data.restaurants.value = <<"B", "A">>
    /\ lastResp.id = 2
    /\ restaurants = <<"B", "A">>

C17_NoClickAfterSuccess ==
    [][/\ userLocation # nullLocation => userLocation' # nullLocation
       /\ userLocation # nullLocation => ~ClickStep
      ]_vars

\* C17 (amended): userLocation never returns to absent, and once a render
\* has shown the Coordinates no acquisition is started from the button, so
\* the number of pending acquisitions only goes down from then on.
C17_NoClickAfterRender ==
    [][/\ userLocation # nullLocation => userLocation' # nullLocation
       /\ rendered.userLocation # nullLocation
             => rendered'.userLocation # nullLocation
       /\ rendered.userLocation # nullLocation
             => ~ClickStep /\ pendingGeo' <= pendingGeo
      ]_vars

\* C17 witness: Coordinates are on screen while the other acquisition, started
\* before, is still pending.
C17_Witness ==
    /\ rendered.userLocation # nullLocation
    /\ pendingGeo = 1
    /\ nCalls = 2

\* C18: a response that stores a list leaves error unchanged, a response
\* that stores an error leaves restaurants unchanged, and userLocation is
\* changed by the geolocation success callback only.
C18_ResolutionFrame ==
    [][/\ ResolveStep
            => /\ userLocation' = userLocation
               /\ lastResp'.list => error' = error
               /\ ~lastResp'.list => restaurants' = restaurants
       /\ GeoErrorStep => userLocation' = userLocation
       /\ userLocation' # userLocation => Len(acquired') = Len(acquired) + 1
      ]_vars

\* C18 witness: a list arrived while the location error of the other
\* acquisition was shown, and the error is still there beside the list.
C18_Witness ==
    /\ lastResp.list
    /\ restaurants # << >>
    /\ error = ErrLocation

====
